---- MODULE Spec2Model ----
(***************************************************************************)
(* Model of the music generator application (music_generator_app):         *)
(*   model.py      MusicGenerator (windowed data set, training, sampling,  *)
(*                 note stream) and SimpleMusicGenerator (Markov walk)     *)
(*   music_app.py  MediMusicGenerator (Markov walk) and                    *)
(*                 generate_wav_from_melody (sine synthesis)               *)
(*   app.py        main (train / generate requests on the cached models)   *)
(* Each component has its own specification (SpecMelody, SpecData,         *)
(* SpecGen, SpecStream, SpecWav, SpecApp); a component that a              *)
(* specification does not exercise stays in its "off" state.               *)
(***************************************************************************)
EXTENDS Integers, Sequences, FiniteSets, TLC

VARIABLES
    \* generate_melody (SimpleMusicGenerator / MediMusicGenerator)
    cls, length, start_note, melody, current_note, iters, mpc,
    \* MusicGenerator.create_training_data
    sequences, X, y, dpc,
    \* MusicGenerator.generate_music
    gmodel, seed_sequence, glength, temperature, generated_notes, giters,
    fed, sampled, gresult, gerr, gpc,
    \* notes_to_music21 / generate_music21_stream
    sgen, notes, tempo, duration, stream, todo, spc,
    \* generate_wav_from_melody
    wmelody, wtempo, sample_rate, nsamp, samples, wdone, audio_data, wpc,
    \* app.py main: sessions sharing the cached MusicGenerator
    model, made, fitted, dataset, sess, trainDone, nreq

melodyVars == <<cls, length, start_note, melody, current_note, iters, mpc>>
dataVars   == <<sequences, X, y, dpc>>
genVars    == <<gmodel, seed_sequence, glength, temperature, generated_notes,
                giters, fed, sampled, gresult, gerr, gpc>>
streamVars == <<sgen, notes, tempo, duration, stream, todo, spc>>
wavVars    == <<wmelody, wtempo, sample_rate, nsamp, samples, wdone,
                audio_data, wpc>>
appVars    == <<model, made, fitted, dataset, sess, trainDone, nreq>>
vars == <<melodyVars, dataVars, genVars, streamVars, wavVars, appVars>>

----------------------------------------------------------------------------
(* Bounds of the model *)

\* largest requested melody length (generate_melody's length argument)
MaxLength == 4
\* smallest requested melody length is -MinLengthBelow
MinLengthBelow == 1

(* Helpers *)

Max(a, b) == IF a >= b THEN a ELSE b
\* range(n) has max(0, n) iterations
RangeLen(n) == Max(0, n)
\* Python's seq[-k:] for k >= 1: the last k elements (all of seq when shorter)
LastK(seq, k) == SubSeq(seq, Max(1, Len(seq) - k + 1), Len(seq))
\* Python's seq[k:] for k >= 0
DropK(seq, k) == SubSeq(seq, k + 1, Len(seq))
\* all sequences over S of length lo..hi
SeqsOf(S, lo, hi) == UNION {[1..n -> S] : n \in lo..hi}

----------------------------------------------------------------------------
(* The "off" state of each component *)

MelodyOff ==
    /\ cls = "Medi" /\ length = 0 /\ start_note = 0 /\ melody = <<>>
    /\ current_note = 0 /\ iters = 0 /\ mpc = "off"
DataOff ==
    /\ sequences = <<>> /\ X = <<>> /\ y = <<>> /\ dpc = "off"
GenOff ==
    /\ gmodel = "None" /\ seed_sequence = [given |-> FALSE, value |-> <<>>]
    /\ glength = 0
    /\ temperature = 1 /\ generated_notes = <<>> /\ giters = 0
    /\ fed = <<>> /\ sampled = <<>> /\ gresult = <<>> /\ gerr = "none"
    /\ gpc = "off"
StreamOff ==
    /\ sgen = "advanced" /\ notes = <<>> /\ tempo = 0 /\ duration = 0
    /\ stream = <<>> /\ todo = <<>> /\ spc = "off"
WavOff ==
    /\ wmelody = <<>> /\ wtempo = 1 /\ sample_rate = 1 /\ nsamp = 0
    /\ samples = <<>> /\ wdone = 0 /\ audio_data = <<>> /\ wpc = "off"
AppOff ==
    /\ model = 0 /\ made = 0 /\ fitted = {} /\ dataset = <<>>
    /\ sess = <<>> /\ trainDone = FALSE /\ nreq = 0

----------------------------------------------------------------------------
(* SimpleMusicGenerator (model.py) and MediMusicGenerator (music_app.py):  *)
(* the two classes have the same table and the same generate_melody; they  *)
(* differ in their module: music_app.py imports random, model.py does not. *)

common_notes == <<60, 62, 64, 65, 67, 69, 71, 72>>

\* faulty variant of transitions: a successor of 72 is no key of the table
transitionsOpen ==
    (60 :> <<62, 64, 67>>) @@ (62 :> <<64, 65, 67>>) @@
    (64 :> <<65, 67, 69>>) @@ (65 :> <<67, 69, 72>>) @@
    (67 :> <<69, 71, 72>>) @@ (69 :> <<71, 72, 60>>) @@
    (71 :> <<72, 60, 62>>) @@ (72 :> <<60, 62, 74>>)

transitions ==
    (60 :> <<62, 64, 67>>) @@ (62 :> <<64, 65, 67>>) @@
    (64 :> <<65, 67, 69>>) @@ (65 :> <<67, 69, 72>>) @@
    (67 :> <<69, 71, 72>>) @@ (69 :> <<71, 72, 60>>) @@
    (71 :> <<72, 60, 62>>) @@ (72 :> <<60, 62, 64>>)

\* the names a module's generate_melody can resolve: model.py has no
\* "import random" (model.py:1-9), music_app.py has one (music_app.py:4)
RandomImported(c) == c = "Medi"

\* start pitches: the eight the selectbox offers (music_app.py:213-215),
\* and two that are no key of the table
StartNotes == {60, 62, 64, 65, 67, 69, 71, 72, 61, 0}

Range(seq) == {seq[i] : i \in 1..Len(seq)}

\* faulty variant of Candidates: the table is never consulted
CandidatesNoTable(note) == common_notes

\* the list random.choice draws from (the if/else of the loop body)
Candidates(note) ==
    IF note \in DOMAIN transitions THEN transitions[note] ELSE common_notes

\* melody = [start_note]; current_note = start_note; for _ in range(length - 1)
GenerateMelodyEnter ==
    /\ mpc = "call"
    /\ melody' = <<start_note>>
    /\ current_note' = start_note
    /\ iters' = RangeLen(length - 1)
    /\ mpc' = "loop"
    /\ UNCHANGED <<cls, length, start_note>>
    /\ UNCHANGED <<dataVars, genVars, streamVars, wavVars, appVars>>

\* one iteration of the loop where random is bound
GenerateMelodyStep ==
    /\ mpc = "loop" /\ iters > 0
    /\ RandomImported(cls)
    /\ \E i \in 1..Len(Candidates(current_note)) :
          LET next_note == Candidates(current_note)[i] IN
          /\ melody' = Append(melody, next_note)
          /\ current_note' = next_note
    /\ iters' = iters - 1
    /\ UNCHANGED <<cls, length, start_note, mpc>>
    /\ UNCHANGED <<dataVars, genVars, streamVars, wavVars, appVars>>

\* one iteration of the loop where random is unbound: NameError
GenerateMelodyNameError ==
    /\ mpc = "loop" /\ iters > 0
    /\ ~RandomImported(cls)
    /\ mpc' = "error"
    /\ UNCHANGED <<cls, length, start_note, melody, current_note, iters>>
    /\ UNCHANGED <<dataVars, genVars, streamVars, wavVars, appVars>>

\* return melody
GenerateMelodyReturn ==
    /\ mpc = "loop" /\ iters = 0
    /\ mpc' = "done"
    /\ UNCHANGED <<cls, length, start_note, melody, current_note, iters>>
    /\ UNCHANGED <<dataVars, genVars, streamVars, wavVars, appVars>>

InitMelody ==
    /\ cls \in {"Simple", "Medi"}
    /\ length \in (0 - MinLengthBelow)..MaxLength
    /\ start_note \in StartNotes
    /\ melody = <<>> /\ current_note = 0 /\ iters = 0 /\ mpc = "call"
    /\ DataOff /\ GenOff /\ StreamOff /\ WavOff /\ AppOff

NextMelody ==
    \/ GenerateMelodyEnter
    \/ GenerateMelodyStep
    \/ GenerateMelodyNameError
    \/ GenerateMelodyReturn

SpecMelody == InitMelody /\ [][NextMelody]_vars

\* whether generate_melody(length) of class c raises: it does as soon as the
\* loop body runs once in a module where random is unbound
GenerateMelodyRaises(c, len) == ~RandomImported(c) /\ RangeLen(len - 1) > 0

----------------------------------------------------------------------------
\* C1: for every length >= 1 and start pitch p, generate_melody(length, p)
\* returns a melody of exactly `length` elements whose first element is p.
\* (Stated of every finished call: a call that ends in an error returns no
\* melody.)
C1_LengthAndFirst ==
    (mpc \in {"done", "error"} /\ length >= 1) =>
        /\ mpc = "done"
        /\ Len(melody) = length
        /\ melody[1] = start_note

\* C2: in every melody produced, each element after the first is a member of
\* its predecessor's successor list when the predecessor is a key of the
\* table, and of common_notes otherwise; from 60 the second element is in
\* {62, 64, 67}.
C2_Membership ==
    /\ \A k \in 2..Len(melody) :
          IF melody[k - 1] \in DOMAIN transitions
          THEN melody[k] \in Range(transitions[melody[k - 1]])
          ELSE melody[k] \in Range(common_notes)
    /\ (Len(melody) >= 2 /\ melody[1] = 60) => melody[2] \in {62, 64, 67}

\* a returned melody that takes the fallback branch and then the table
C2_Witness ==
    /\ mpc = "done" /\ Len(melody) >= 3
    /\ melody[1] \notin DOMAIN transitions
    /\ melody[2] \in DOMAIN transitions

\* C3: generate_melody with length < 1 is rejected with an error and returns
\* no melody.
C3_RejectsShortLength ==
    (mpc \in {"done", "error"} /\ length < 1) => mpc = "error"

\* C15: every successor listed in the table and every default pitch is a key
\* of the table; hence, for any start pitch and any length, every melody
\* element after the start pitch is one of the eight pitches 60, 62, 64, 65,
\* 67, 69, 71, 72, and the default-pitch branch (taken when the current note
\* is no key) can be taken only by the first draw, never by a later one.
C15_TableClosed ==
    /\ \A n \in DOMAIN transitions :
          Range(transitions[n]) \subseteq DOMAIN transitions
    /\ Range(common_notes) \subseteq DOMAIN transitions
    /\ \A k \in 2..Len(melody) :
          /\ melody[k] \in {60, 62, 64, 65, 67, 69, 71, 72}
          /\ melody[k] \in DOMAIN transitions
    /\ (mpc = "loop" /\ Len(melody) >= 2) => current_note \in DOMAIN transitions

\* a returned melody of four notes whose first draw took the default-pitch
\* branch and whose two later draws took the table
C15_Witness ==
    /\ mpc = "done" /\ Len(melody) = 4
    /\ melody[1] = 61
    /\ melody[3] \in Range(transitions[melody[2]])
    /\ melody[4] \in Range(transitions[melody[3]])

----------------------------------------------------------------------------
(* MusicGenerator.create_training_data (model.py)                          *)

\* self.sequence_length (model.py:14 sets 32); the model runs it scaled down
sequence_length == 2

\* the longest source sequence the model feeds in
MaxNotes == sequence_length + 2

\* a note as load_maestro_data builds it; only 'pitch' is read downstream
DataPitches == {0, 1}
Notes == [pitch : DataPitches]
SourceCounts == {0, 1, 2}
SourceSequences == UNION {[1..n -> SeqsOf(Notes, 0, MaxNotes)] : n \in SourceCounts}

\* faulty variant of SeqPairs: the target is read one position early
SeqPairsTargetEarly(seq) ==
    IF Len(seq) > sequence_length
    THEN [i \in 1..(Len(seq) - sequence_length) |->
            [input_notes |-> [j \in 1..sequence_length |-> seq[i + j - 1].pitch],
             target_pitch |-> seq[i + sequence_length - 1].pitch]]
    ELSE <<>>

\* the inner loop for one seq: for i in range(len(seq) - L), the pair
\* (input_notes, target_pitch); positions are 1-based here, i = offset + 1
SeqPairs(seq) ==
    IF Len(seq) > sequence_length
    THEN [i \in 1..(Len(seq) - sequence_length) |->
            [input_notes |-> [j \in 1..sequence_length |-> seq[i + j - 1].pitch],
             target_pitch |-> seq[i + sequence_length].pitch]]
    ELSE <<>>

\* the outer loop: for seq in sequences, appending in order
RECURSIVE AllPairs(_)
AllPairs(seqs) ==
    IF seqs = <<>> THEN <<>>
    ELSE SeqPairs(Head(seqs)) \o AllPairs(Tail(seqs))

create_training_data(seqs) ==
    LET pairs == AllPairs(seqs) IN
    [X |-> [k \in 1..Len(pairs) |-> pairs[k].input_notes],
     y |-> [k \in 1..Len(pairs) |-> pairs[k].target_pitch]]

CreateTrainingData ==
    /\ dpc = "call"
    /\ X' = create_training_data(sequences).X
    /\ y' = create_training_data(sequences).y
    /\ dpc' = "done"
    /\ UNCHANGED sequences
    /\ UNCHANGED <<melodyVars, genVars, streamVars, wavVars, appVars>>

InitData ==
    /\ sequences \in SourceSequences
    /\ X = <<>> /\ y = <<>> /\ dpc = "call"
    /\ MelodyOff /\ GenOff /\ StreamOff /\ WavOff /\ AppOff

NextData == CreateTrainingData

SpecData == InitData /\ [][NextData]_vars

\* number of windows a sequence of n pitches is expected to give
WindowCount(n) == IF n > sequence_length THEN n - sequence_length ELSE 0

\* windows expected from the sequences before the s-th
RECURSIVE WindowsBefore(_, _)
WindowsBefore(seqs, s) ==
    IF s <= 1 THEN 0
    ELSE WindowsBefore(seqs, s - 1) + WindowCount(Len(seqs[s - 1]))

\* C4: each source sequence of N pitches gives N - L windows when N > L and
\* none otherwise; its i-th window has the pitches at offsets [i, i+L) as
\* context and the pitch at offset i+L as target; windows are sequence-major
\* in ascending offset; X and y have one length and every context has L
\* elements.
C4_Windows ==
    dpc = "done" =>
        /\ Len(X) = Len(y)
        /\ Len(X) = WindowsBefore(sequences, Len(sequences) + 1)
        /\ \A k \in 1..Len(X) : Len(X[k]) = sequence_length
        /\ \A s \in 1..Len(sequences) :
              \A i \in 0..(WindowCount(Len(sequences[s])) - 1) :
                 LET k == WindowsBefore(sequences, s) + i + 1 IN
                 /\ \A j \in 0..(sequence_length - 1) :
                       X[k][j + 1] = sequences[s][i + j + 1].pitch
                 /\ y[k] = sequences[s][i + sequence_length + 1].pitch

\* two sources that give windows, after one that is too short
C4_Witness ==
    /\ dpc = "done" /\ Len(sequences) = 2
    /\ Len(sequences[1]) = sequence_length
    /\ Len(sequences[2]) = sequence_length + 2
    /\ Len(X) = 2 /\ X[1] # X[2] /\ y[1] # y[2]

----------------------------------------------------------------------------
(* MusicGenerator.generate_music (model.py)                                *)

\* self.note_range (model.py:15 sets 128); the model runs it scaled down
note_range == 2
\* self.vocab_size = self.note_range + 1, the last class being the rest
vocab_size == note_range + 1
Tokens == 0..(vocab_size - 1)

\* largest requested number of tokens
MaxGenLength == 2

\* the seed_sequence argument: None (given = FALSE), or a token list of up
\* to L + 1 tokens
SeedTokens == {0, vocab_size - 1}
NoSeed == [given |-> FALSE, value |-> <<>>]
Seeds ==
    {NoSeed} \cup
    {[given |-> TRUE, value |-> s] : s \in SeqsOf(SeedTokens, 0, sequence_length + 1)}

\* temperature in thousandths: -0.8, 0, 0.001 and the 0.8 app.py:163 passes
Temperatures == {0 - 800, 0, 1, 800}

\* A probability vector as model.predict returns it (a softmax output), each
\* entry by its class: "zero" (0.0 after underflow), "mid" (0 < p < 1),
\* "one" (1.0).  Either one entry is 1 and the rest 0, or at least two
\* entries are strictly between.
PredVectors ==
    {v \in [Tokens -> {"zero", "mid", "one"}] :
        \/ /\ Cardinality({i \in Tokens : v[i] = "one"}) = 1
           /\ \A i \in Tokens : v[i] # "mid"
        \/ /\ \A i \in Tokens : v[i] # "one"
           /\ Cardinality({i \in Tokens : v[i] = "mid"}) >= 2}

\* np.log of an entry
LogClass(c) ==
    CASE c = "zero" -> "-inf"
      [] c = "mid"  -> "neg"
      [] c = "one"  -> "0"

\* (log p) / temperature in IEEE arithmetic (numpy warns, it does not raise)
DivClass(l, T) ==
    CASE T > 0 -> l
      [] T = 0 -> (CASE l = "-inf" -> "-inf" [] l = "neg" -> "-inf" [] l = "0" -> "nan")
      [] T < 0 -> (CASE l = "-inf" -> "+inf" [] l = "neg" -> "pos" [] l = "0" -> "0")

\* whether float32 exp can leave its range on this temperature: a positive
\* temperature below about 0.047 underflows every p < 1 (exp(x) = 0 below
\* x = -104, and the largest softmax entry is at least 1/129), and a negative
\* one overflows on a small enough p
ExpCanLeaveRange(T) == (T > 0 /\ T < 47) \/ T < 0

\* np.exp of an entry; u: this call's entries leave the float32 range
ExpClass(d, u) ==
    CASE d = "-inf" -> "zero"
      [] d = "neg"  -> IF u THEN "zero" ELSE "pos"
      [] d = "0"    -> "pos"
      [] d = "pos"  -> IF u THEN "inf" ELSE "pos"
      [] d = "+inf" -> "inf"
      [] d = "nan"  -> "nan"

\* np.sum(exp_preds)
SumClass(e) ==
    IF \E i \in Tokens : e[i] = "nan" THEN "nan"
    ELSE IF \E i \in Tokens : e[i] = "inf" THEN "inf"
    ELSE IF \A i \in Tokens : e[i] = "zero" THEN "zero"
    ELSE "pos"

\* exp_preds / np.sum(exp_preds), one entry
QuotClass(c, s) ==
    CASE c = "nan" \/ s = "nan" -> "nan"
      [] c # "nan" /\ s = "inf"  -> IF c = "inf" THEN "nan" ELSE "zero"
      [] c # "nan" /\ s = "zero" -> "nan"
      [] c # "nan" /\ s = "pos"  -> c

\* lines 131-133: the temperature-adjusted vector
ApplyTemperature(pred, T, u) ==
    LET e == [i \in Tokens |-> ExpClass(DivClass(LogClass(pred[i]), T), u)]
    IN  [i \in Tokens |-> QuotClass(e[i], SumClass(e))]

\* np.random.choice(vocab_size, p=p): ValueError on a NaN entry, else a token
\* of positive probability
ChoiceRaises(p) == \E i \in Tokens : p[i] = "nan"
ChoiceSupport(p) == {i \in Tokens : p[i] = "pos"}

\* faulty variant of SeedContext: the seed is kept whole
SeedContextWhole(seed) == seed

\* line 118: seed_sequence[-self.sequence_length:]
SeedContext(seed) == LastK(seed, sequence_length)

\* faulty variant of ContextFits: a short context is fed as it is
ContextFitsAlways(ctx) == TRUE

\* line 125: reshape((1, L, 1)) succeeds only on exactly L values
ContextFits(ctx) == Len(ctx) = sequence_length

\* lines 114-122: the seed (random when absent), the list, the loop header
GenerateMusicEnter ==
    /\ gpc = "call"
    /\ \/ /\ ~seed_sequence.given
          /\ generated_notes' \in [1..sequence_length -> 0..(note_range - 1)]
       \/ /\ seed_sequence.given
          /\ generated_notes' = SeedContext(seed_sequence.value)
    /\ giters' = RangeLen(glength)
    /\ gpc' = "loop"
    /\ UNCHANGED <<gmodel, seed_sequence, glength, temperature, fed, sampled,
                   gresult, gerr>>
    /\ UNCHANGED <<melodyVars, dataVars, streamVars, wavVars, appVars>>

\* lines 124-125 raising: the context cannot be reshaped to (1, L, 1)
GenerateMusicReshapeError ==
    /\ gpc = "loop" /\ giters > 0
    /\ ~ContextFits(LastK(generated_notes, sequence_length))
    /\ gpc' = "error" /\ gerr' = "ValueError:reshape"
    /\ UNCHANGED <<gmodel, seed_sequence, glength, temperature,
                   generated_notes, giters, fed, sampled, gresult>>
    /\ UNCHANGED <<melodyVars, dataVars, streamVars, wavVars, appVars>>

\* line 128 raising: self.model is None
GenerateMusicNoModel ==
    /\ gpc = "loop" /\ giters > 0
    /\ ContextFits(LastK(generated_notes, sequence_length))
    /\ gmodel = "None"
    /\ gpc' = "error" /\ gerr' = "AttributeError:predict"
    /\ UNCHANGED <<gmodel, seed_sequence, glength, temperature,
                   generated_notes, giters, fed, sampled, gresult>>
    /\ UNCHANGED <<melodyVars, dataVars, streamVars, wavVars, appVars>>

\* lines 124-136 with np.random.choice raising on a NaN probability
GenerateMusicChoiceError ==
    /\ gpc = "loop" /\ giters > 0
    /\ ContextFits(LastK(generated_notes, sequence_length))
    /\ gmodel # "None"
    /\ \E pred \in PredVectors, u \in BOOLEAN :
          /\ u => ExpCanLeaveRange(temperature)
          /\ ChoiceRaises(ApplyTemperature(pred, temperature, u))
    /\ fed' = Append(fed, LastK(generated_notes, sequence_length))
    /\ gpc' = "error" /\ gerr' = "ValueError:choice"
    /\ UNCHANGED <<gmodel, seed_sequence, glength, temperature,
                   generated_notes, giters, sampled, gresult>>
    /\ UNCHANGED <<melodyVars, dataVars, streamVars, wavVars, appVars>>

\* lines 124-138: one full iteration
GenerateMusicStep ==
    /\ gpc = "loop" /\ giters > 0
    /\ ContextFits(LastK(generated_notes, sequence_length))
    /\ gmodel # "None"
    /\ \E pred \in PredVectors, u \in BOOLEAN :
          LET p == ApplyTemperature(pred, temperature, u) IN
          /\ u => ExpCanLeaveRange(temperature)
          /\ ~ChoiceRaises(p)
          /\ \E next_note \in ChoiceSupport(p) :
                /\ generated_notes' = Append(generated_notes, next_note)
                /\ sampled' = Append(sampled, next_note)
    /\ fed' = Append(fed, LastK(generated_notes, sequence_length))
    /\ giters' = giters - 1
    /\ UNCHANGED <<gmodel, seed_sequence, glength, temperature, gresult, gerr, gpc>>
    /\ UNCHANGED <<melodyVars, dataVars, streamVars, wavVars, appVars>>

\* line 140: return generated_notes[self.sequence_length:]
GenerateMusicReturn ==
    /\ gpc = "loop" /\ giters = 0
    /\ gresult' = DropK(generated_notes, sequence_length)
    /\ gpc' = "done"
    /\ UNCHANGED <<gmodel, seed_sequence, glength, temperature,
                   generated_notes, giters, fed, sampled, gerr>>
    /\ UNCHANGED <<melodyVars, dataVars, streamVars, wavVars, appVars>>

InitGen ==
    /\ gmodel \in {"None", "model"}
    /\ seed_sequence \in Seeds
    /\ glength \in (0 - 1)..MaxGenLength
    /\ temperature \in Temperatures
    /\ generated_notes = <<>> /\ giters = 0 /\ fed = <<>> /\ sampled = <<>>
    /\ gresult = <<>> /\ gerr = "none" /\ gpc = "call"
    /\ MelodyOff /\ DataOff /\ StreamOff /\ WavOff /\ AppOff

NextGen ==
    \/ GenerateMusicEnter
    \/ GenerateMusicReshapeError
    \/ GenerateMusicNoModel
    \/ GenerateMusicChoiceError
    \/ GenerateMusicStep
    \/ GenerateMusicReturn

SpecGen == InitGen /\ [][NextGen]_vars

----------------------------------------------------------------------------
\* the seed is absent or has at least L tokens
SeedSuffices == ~seed_sequence.given \/ Len(seed_sequence.value) >= sequence_length
\* the seed is given and has fewer than L tokens
SeedShort == seed_sequence.given /\ Len(seed_sequence.value) < sequence_length
\* the context the call starts from: the random one, or the whole seed
StartTokens ==
    IF seed_sequence.given THEN seed_sequence.value
    ELSE SubSeq(generated_notes, 1, sequence_length)

\* C6: with a model present and a seed that is absent or has at least L
\* tokens, generate_music returns exactly `length` tokens, all of them the
\* tokens it sampled (no seed token is echoed, also for a seed longer than
\* L), each in 0..vocab_size-1; the context fed to the model at step k is
\* the last L tokens of the seed followed by the k tokens generated so far;
\* and on a temperature that keeps exp in range (such as 0.8) the call does
\* return.
C6_GeneratedSuffix ==
    (gmodel # "None" /\ SeedSuffices /\ glength >= 0) =>
        /\ gpc = "done" =>
              /\ Len(gresult) = glength
              /\ gresult = sampled
              /\ \A k \in 1..Len(gresult) : gresult[k] \in 0..(vocab_size - 1)
              /\ Len(fed) = glength
              /\ \A k \in 1..Len(fed) :
                    fed[k] = LastK(StartTokens \o SubSeq(gresult, 1, k - 1),
                                   sequence_length)
        /\ (temperature > 0 /\ ~ExpCanLeaveRange(temperature)) => gpc # "error"

\* a seed longer than L, two tokens returned
C6_Witness ==
    /\ gpc = "done" /\ gmodel # "None" /\ seed_sequence.given
    /\ Len(seed_sequence.value) > sequence_length
    /\ glength = 2 /\ Len(gresult) = 2
    /\ gresult[1] # seed_sequence.value[Len(seed_sequence.value)]

C8_RejectsNonPositiveTemperature ==
    (temperature <= 0 /\ gmodel # "None" /\ SeedSuffices /\ glength >= 1) =>
        /\ fed = <<>> /\ sampled = <<>>
        /\ gpc \in {"done", "error"} => gpc = "error"

----------------------------------------------------------------------------
(* MusicGenerator.notes_to_music21 and                                     *)
(* SimpleMusicGenerator.generate_music21_stream (model.py).  A music21     *)
(* stream is the sequence of its elements, each with the offset (in        *)
(* quarter lengths from the start) stream.append gave it.  Durations and   *)
(* offsets are counted in quarters of a beat (duration 0.5 is 2).          *)

\* most tokens handed to one call
MaxStreamNotes == 3

\* what the callers pass: notes_to_music21 gets generate_music's tokens,
\* generate_music21_stream gets Markov melodies (pitches of the table)
StreamPitches == {60, 72}
StreamInputs(g) ==
    IF g = "advanced" THEN SeqsOf(Tokens, 0, MaxStreamNotes)
    ELSE SeqsOf(StreamPitches, 0, MaxStreamNotes)
\* the slider's ends and default (app.py:125)
Tempos == {60, 120, 200}
\* 0.25, 0.5 (the default) and 1.0 beats
Durations == {1, 2, 4}

\* the end of the last element: where stream.append places the next one
HighestTime(s) ==
    IF s = <<>> THEN 0
    ELSE LET ends == {s[i].offset + s[i].quarterLength : i \in 1..Len(s)}
         IN  CHOOSE m \in ends : \A e \in ends : e <= m

\* stream.append(element)
StreamAppend(s, e) == Append(s, [e EXCEPT !.offset = HighestTime(s)])

\* m21.tempo.MetronomeMark(number=tempo): an element without duration
MetronomeMark(number) ==
    [kind |-> "MetronomeMark", number |-> number, offset |-> 0, quarterLength |-> 0]
\* m21.note.Note() with pitch.midi and duration.quarterLength set
Note(midi, ql) ==
    [kind |-> "Note", midi |-> midi, offset |-> 0, quarterLength |-> ql]
\* m21.note.Rest() with duration.quarterLength set
Rest(ql) == [kind |-> "Rest", offset |-> 0, quarterLength |-> ql]

\* faulty variant of IsValidMidiNote: the rest class counts as a pitch
IsValidMidiNoteInclusive(note_num) == note_num <= note_range

\* line 148: if note_num < self.note_range
IsValidMidiNote(note_num) == note_num < note_range

\* lines 144-145 and 193-194: the stream and its tempo mark
StreamEnter ==
    /\ spc = "call"
    /\ stream' = StreamAppend(<<>>, MetronomeMark(tempo))
    /\ todo' = notes
    /\ spc' = "loop"
    /\ UNCHANGED <<sgen, notes, tempo, duration>>
    /\ UNCHANGED <<melodyVars, dataVars, genVars, wavVars, appVars>>

\* lines 147-156: one note_num of notes_to_music21
NotesToMusic21Step ==
    /\ spc = "loop" /\ sgen = "advanced" /\ todo # <<>>
    /\ LET note_num == Head(todo) IN
       stream' = IF IsValidMidiNote(note_num)
                 THEN StreamAppend(stream, Note(note_num, duration))
                 ELSE StreamAppend(stream, Rest(duration))
    /\ todo' = Tail(todo)
    /\ UNCHANGED <<sgen, notes, tempo, duration, spc>>
    /\ UNCHANGED <<melodyVars, dataVars, genVars, wavVars, appVars>>

\* lines 196-200: one note_num of generate_music21_stream
GenerateMusic21StreamStep ==
    /\ spc = "loop" /\ sgen = "simple" /\ todo # <<>>
    /\ stream' = StreamAppend(stream, Note(Head(todo), duration))
    /\ todo' = Tail(todo)
    /\ UNCHANGED <<sgen, notes, tempo, duration, spc>>
    /\ UNCHANGED <<melodyVars, dataVars, genVars, wavVars, appVars>>

\* return stream
StreamReturn ==
    /\ spc = "loop" /\ todo = <<>>
    /\ spc' = "done"
    /\ UNCHANGED <<sgen, notes, tempo, duration, stream, todo>>
    /\ UNCHANGED <<melodyVars, dataVars, genVars, wavVars, appVars>>

InitStream ==
    /\ sgen \in {"advanced", "simple"}
    /\ notes \in StreamInputs(sgen)
    /\ tempo \in Tempos
    /\ duration \in Durations
    /\ stream = <<>> /\ todo = <<>> /\ spc = "call"
    /\ MelodyOff /\ DataOff /\ GenOff /\ WavOff /\ AppOff

NextStream ==
    \/ StreamEnter
    \/ NotesToMusic21Step
    \/ GenerateMusic21StreamStep
    \/ StreamReturn

SpecStream == InitStream /\ [][NextStream]_vars

----------------------------------------------------------------------------
(* generate_wav_from_melody (music_app.py).  The buffer is kept sample by  *)
(* sample: the note a sample belongs to, its index in the note and its     *)
(* envelope value, a fraction <<numerator, denominator>>.                  *)
(* np.sin is kept by its range: each note runs on a wave whose values are  *)
(* fractions in [-1, 1] (the two extremes held, or a quarter-rate sine),   *)
(* and a sample's value is 0.5 * sin * envelope as an exact fraction.      *)

\* largest sample rate and longest melody the model synthesizes
MaxSampleRate == 16
MaxWavNotes == 2

WavPitches == {60, 69}
WavTempos == {60, 120, 200}

\* faulty variant of SamplesPerNote: beats per second instead of seconds per beat
SamplesPerNoteInverted(rate, bpm) == {(rate * bpm) \div 60}

\* line 134 and line 143: int(sample_rate * (60.0 / tempo)).  The exact
\* quotient truncates to q; in floating point 60.0 / tempo is rounded, and
\* where tempo divides 60 * sample_rate the product can land just below q
\* and truncate to q - 1 (int(11 * (60.0 / 11)) is 59).
SamplesPerNote(rate, bpm) ==
    LET q == (rate * 60) \div bpm IN
    IF (rate * 60) % bpm = 0 /\ q >= 1 THEN {q, q - 1} ELSE {q}

\* np.linspace(0, 1, n)[j], j in 0..n-1 (a single point is the start)
LinspaceUp(n, j) == IF n = 1 THEN <<0, 1>> ELSE <<j, n - 1>>
\* np.linspace(1, 0, n)[j]
LinspaceDown(n, j) == IF n = 1 THEN <<1, 1>> ELSE <<n - 1 - j, n - 1>>

\* lines 148-149
AttackSamples(s) == s \div 10
DecaySamples(s) == s \div 5

\* line 154: envelope[-decay_samples:] = np.linspace(1, 0, decay_samples).
\* With decay_samples = 0 the slice envelope[-0:] is the whole array, and an
\* empty right-hand side fits it only when the array is empty too.
DecayAssignRaises(s) == DecaySamples(s) = 0 /\ s # 0

\* lines 147-154: the envelope of one note of s samples, index k in 0..s-1
Envelope(s, k) ==
    IF k >= s - DecaySamples(s) /\ DecaySamples(s) > 0
    THEN LinspaceDown(DecaySamples(s), k - (s - DecaySamples(s)))
    ELSE IF k < AttackSamples(s)
    THEN LinspaceUp(AttackSamples(s), k)
    ELSE <<1, 1>>

\* np.sin(2 * np.pi * frequency * t) at sample k, on wave w
Waves == {"high", "low", "quarter"}
Sine(w, k) ==
    CASE w = "high"    -> <<1, 1>>
      [] w = "low"     -> <<0 - 1, 1>>
      [] w = "quarter" -> (CASE k % 4 = 0 -> <<0, 1>>
                             [] k % 4 = 1 -> <<1, 1>>
                             [] k % 4 = 2 -> <<0, 1>>
                             [] k % 4 = 3 -> <<0 - 1, 1>>)

\* faulty variant of SampleValue: the amplitude factor is 2 instead of 0.5
SampleValueLoud(sin, env) == <<2 * sin[1] * env[1], sin[2] * env[2]>>

\* lines 144 and 156: 0.5 * sin * envelope, as a fraction
SampleValue(sin, env) == <<sin[1] * env[1], 2 * sin[2] * env[2]>>

\* lines 141-157 for the i-th note: its s samples
NoteSamples(i, s, w) ==
    [j \in 1..s |-> [note |-> i, midi |-> wmelody[i], k |-> j - 1,
                     env |-> Envelope(s, j - 1),
                     value |-> SampleValue(Sine(w, j - 1), Envelope(s, j - 1))]]

\* a / b for b > 0, truncated towards zero as a float-to-integer cast does
TruncDiv(a, b) == IF a >= 0 THEN a \div b ELSE 0 - ((0 - a) \div b)

\* a 16-bit signed integer holding v: values outside its range wrap
WrapInt16(v) == ((v + 32768) % 65536) - 32768

\* line 161: np.int16(audio_data * 32767), one sample
Quantize(value) == WrapInt16(TruncDiv(32767 * value[1], value[2]))

\* lines 134-138
WavEnter ==
    /\ wpc = "call"
    /\ nsamp' \in SamplesPerNote(sample_rate, wtempo)
    /\ samples' = <<>>
    /\ wdone' = 0
    /\ wpc' = "loop"
    /\ UNCHANGED <<wmelody, wtempo, sample_rate, audio_data>>
    /\ UNCHANGED <<melodyVars, dataVars, genVars, streamVars, appVars>>

\* lines 140-157: one note, samples.extend(note_samples)
WavNote ==
    /\ wpc = "loop" /\ wdone < Len(wmelody)
    /\ ~DecayAssignRaises(nsamp)
    /\ \E w \in Waves : samples' = samples \o NoteSamples(wdone + 1, nsamp, w)
    /\ wdone' = wdone + 1
    /\ UNCHANGED <<wmelody, wtempo, sample_rate, nsamp, audio_data, wpc>>
    /\ UNCHANGED <<melodyVars, dataVars, genVars, streamVars, appVars>>

\* line 154 raising ValueError (shape mismatch)
WavNoteEnvelopeError ==
    /\ wpc = "loop" /\ wdone < Len(wmelody)
    /\ DecayAssignRaises(nsamp)
    /\ wpc' = "error"
    /\ UNCHANGED <<wmelody, wtempo, sample_rate, nsamp, samples, wdone, audio_data>>
    /\ UNCHANGED <<melodyVars, dataVars, genVars, streamVars, appVars>>

\* lines 159-169: the buffer is converted and written out whole
WavReturn ==
    /\ wpc = "loop" /\ wdone = Len(wmelody)
    /\ audio_data' = [j \in 1..Len(samples) |-> Quantize(samples[j].value)]
    /\ wpc' = "done"
    /\ UNCHANGED <<wmelody, wtempo, sample_rate, nsamp, samples, wdone>>
    /\ UNCHANGED <<melodyVars, dataVars, genVars, streamVars, appVars>>

InitWav ==
    /\ wmelody \in SeqsOf(WavPitches, 0, MaxWavNotes)
    /\ wtempo \in WavTempos
    /\ sample_rate \in 1..MaxSampleRate
    /\ nsamp = 0 /\ samples = <<>> /\ wdone = 0 /\ audio_data = <<>>
    /\ wpc = "call"
    /\ MelodyOff /\ DataOff /\ GenOff /\ StreamOff /\ AppOff

NextWav ==
    \/ WavEnter
    \/ WavNote
    \/ WavNoteEnvelopeError
    \/ WavReturn

SpecWav == InitWav /\ [][NextWav]_vars

\* round(a / b) for b > 0, halves to the even neighbour
RoundDiv(a, b) ==
    LET q == a \div b
        r == a % b IN
    IF 2 * r < b THEN q
    ELSE IF 2 * r > b THEN q + 1
    ELSE IF q % 2 = 0 THEN q ELSE q + 1

Abs(x) == IF x < 0 THEN 0 - x ELSE x

\* C10: the buffer returned for a melody of n notes has n * s samples, s the
\* per-note sample count; s is within 1 of round(sampleRate * 60 / tempo);
\* every note contributes its s samples in order, notes following each other
\* with no gap or overlap.
C10_BufferLength ==
    wpc = "done" =>
        /\ Len(audio_data) = Len(wmelody) * nsamp
        /\ Len(samples) = Len(wmelody) * nsamp
        /\ Abs(nsamp - RoundDiv(sample_rate * 60, wtempo)) <= 1
        /\ \A i \in 1..Len(wmelody) :
              \A k \in 0..(nsamp - 1) :
                 LET smp == samples[(i - 1) * nsamp + k + 1] IN
                 smp.note = i /\ smp.midi = wmelody[i] /\ smp.k = k

\* two notes, with a per-note count that truncation and rounding disagree on
C10_Witness ==
    /\ wpc = "done" /\ Len(wmelody) = 2 /\ nsamp >= 5
    /\ nsamp # RoundDiv(sample_rate * 60, wtempo)
    /\ Len(audio_data) = 2 * nsamp

\* C11: every sample of the returned PCM buffer lies in [-32768, 32767] and
\* is the truncated value itself (the 16-bit conversion never wraps): the
\* envelope multiplier is in [0, 1], so the magnitude before quantization is
\* at most 0.5 and the quantized magnitude at most 16384.
C11_PcmInRange ==
    wpc = "done" =>
        \A j \in 1..Len(audio_data) :
            LET smp == samples[j] IN
            /\ smp.env[2] > 0 /\ 0 <= smp.env[1] /\ smp.env[1] <= smp.env[2]
            /\ smp.value[2] > 0 /\ 2 * Abs(smp.value[1]) <= smp.value[2]
            /\ audio_data[j] = TruncDiv(32767 * smp.value[1], smp.value[2])
            /\ audio_data[j] >= 0 - 32768 /\ audio_data[j] <= 32767
            /\ Abs(audio_data[j]) <= 16384

\* a sustained extreme wave at full envelope, quantized to the largest
\* magnitude the buffer holds, next to a sample inside the decay ramp
C11_Witness ==
    /\ wpc = "done" /\ nsamp >= 15
    /\ \E j \in 1..Len(audio_data) : audio_data[j] = 0 - 16383
    /\ \E j \in 1..Len(audio_data) :
          /\ samples[j].env[1] > 0 /\ samples[j].env[1] < samples[j].env[2]
          /\ audio_data[j] > 0

\* C14: for every melody, tempo > 0 and sample rate > 0 the call completes
\* and returns a buffer, notes shorter than 5 samples included; the attack
\* window [0, int(0.1*s)) and the decay window [s - int(0.2*s), s) never
\* overlap, and every sample outside both windows has envelope value 1.
C14_CompletesWithDisjointWindows ==
    /\ wtempo > 0 /\ sample_rate > 0 => wpc # "error"
    /\ wpc \in {"loop", "done"} =>
          /\ AttackSamples(nsamp) <= nsamp - DecaySamples(nsamp)
          /\ \A j \in 1..Len(samples) :
                (/\ samples[j].k >= AttackSamples(nsamp)
                 /\ samples[j].k < nsamp - DecaySamples(nsamp))
                    => samples[j].env = <<1, 1>>

----------------------------------------------------------------------------
(* app.py main.  Every widget interaction reruns main() for its session;   *)
(* the models load_models() returns are cached across sessions             *)
(* (st.cache_resource), so all sessions share one MusicGenerator.          *)
(* model is the identity of the object in generator.model (0 for None),    *)
(* fitted the objects whose fit has completed.                             *)

\* requests (button presses) followed in one behaviour
MaxRequests == 3

Sessions == {"s1", "s2"}

\* what load_maestro_data returns: nothing (no dataset directory), or one
\* track of L .. L + 3 notes
Track(n) == [i \in 1..n |-> [pitch |-> 0]]
Datasets == {<<>>} \cup {<<Track(n)>> : n \in sequence_length..(sequence_length + 3)}

\* the duration slider's ends and default (app.py:124)
SliderDurations == {10, 30, 120}

\* model.fit with validation_split=0.2 (model.py:102-108) refuses to split n
\* samples when the training part, floor(n * 0.8), would be empty
FitRaises(n) == (n * 4) \div 5 = 0

NoOutcome ==
    [path |-> "none", warned |-> FALSE, noModel |-> FALSE, afterTrain |-> FALSE,
     usedFitted |-> FALSE]
IdleSession ==
    [pc |-> "idle", nwin |-> 0, target |-> 0, train |-> "none",
     raised |-> "none", out |-> NoOutcome]

\* what the except branch of the generate button leaves (app.py:217-226)
\* when the Markov generator raises, and what the try branch leaves when not
MarkovOrFallback(len) ==
    IF GenerateMelodyRaises("Simple", len) THEN "fallback" ELSE "markov"

\* app.py:132-137: the train button; the data set is loaded and windowed
AppTrainStart(s) ==
    /\ sess[s].pc = "idle" /\ nreq < MaxRequests
    /\ nreq' = nreq + 1
    /\ sess' = [sess EXCEPT ![s].pc = "train_model",
                            ![s].nwin = Len(create_training_data(dataset).X),
                            ![s].train = "running",
                            ![s].raised = "none"]
    /\ UNCHANGED <<model, made, fitted, dataset, trainDone>>
    /\ UNCHANGED <<melodyVars, dataVars, genVars, streamVars, wavVars>>

\* model.py:94 on an empty X: X.shape[1] raises IndexError, which
\* app.py:140-141 reports as "Training failed"
AppTrainNoData(s) ==
    /\ sess[s].pc = "train_model" /\ sess[s].nwin = 0
    /\ sess' = [sess EXCEPT ![s].pc = "idle", ![s].train = "failed",
                            ![s].raised = "IndexError"]
    /\ UNCHANGED <<model, made, fitted, dataset, trainDone, nreq>>
    /\ UNCHANGED <<melodyVars, dataVars, genVars, streamVars, wavVars>>

\* model.py:94-100: self.model = self.build_model()
AppTrainBuild(s) ==
    /\ sess[s].pc = "train_model" /\ sess[s].nwin > 0
    /\ made' = made + 1
    /\ model' = made + 1
    /\ sess' = [sess EXCEPT ![s].pc = "train_fit"]
    /\ UNCHANGED <<fitted, dataset, trainDone, nreq>>
    /\ UNCHANGED <<melodyVars, dataVars, genVars, streamVars, wavVars>>

\* model.py:102 raising: the installed model stays, unfitted
AppTrainFitRaises(s) ==
    /\ sess[s].pc = "train_fit" /\ FitRaises(sess[s].nwin)
    /\ sess' = [sess EXCEPT ![s].pc = "idle", ![s].train = "failed",
                            ![s].raised = "ValueError"]
    /\ UNCHANGED <<model, made, fitted, dataset, trainDone, nreq>>
    /\ UNCHANGED <<melodyVars, dataVars, genVars, streamVars, wavVars>>

\* model.py:102: self.model.fit(...) is entered on the object self.model
\* names at this moment
AppTrainFitCall(s) ==
    /\ sess[s].pc = "train_fit" /\ ~FitRaises(sess[s].nwin)
    /\ sess' = [sess EXCEPT ![s].pc = "fitting", ![s].target = model]
    /\ UNCHANGED <<model, made, fitted, dataset, trainDone, nreq>>
    /\ UNCHANGED <<melodyVars, dataVars, genVars, streamVars, wavVars>>

\* model.py:102-110 and app.py:139: fit returns, "Model trained successfully!"
AppTrainFitDone(s) ==
    /\ sess[s].pc = "fitting"
    /\ fitted' = fitted \cup {sess[s].target}
    /\ trainDone' = TRUE
    /\ sess' = [sess EXCEPT ![s].pc = "idle", ![s].train = "ok"]
    /\ UNCHANGED <<model, made, dataset, nreq>>
    /\ UNCHANGED <<melodyVars, dataVars, genVars, streamVars, wavVars>>

\* app.py:144-152: the generate button with "Simple Markov" selected
AppGenSimple(s) ==
    /\ sess[s].pc = "idle" /\ nreq < MaxRequests
    /\ nreq' = nreq + 1
    /\ \E d \in SliderDurations :
          LET melody_length == Max(20, d * 2) IN
          sess' = [sess EXCEPT ![s].out =
                      [path |-> MarkovOrFallback(melody_length), warned |-> FALSE,
                       noModel |-> FALSE, afterTrain |-> trainDone,
                       usedFitted |-> FALSE]]
    /\ UNCHANGED <<model, made, fitted, dataset, trainDone>>
    /\ UNCHANGED <<melodyVars, dataVars, genVars, streamVars, wavVars>>

\* app.py:155-160: "LSTM (Advanced)" selected and generator.model is None:
\* the warning, then the Markov generator with length=30
AppGenNoModel(s) ==
    /\ sess[s].pc = "idle" /\ nreq < MaxRequests
    /\ model = 0
    /\ nreq' = nreq + 1
    /\ sess' = [sess EXCEPT ![s].out =
                   [path |-> MarkovOrFallback(30), warned |-> TRUE,
                    noModel |-> TRUE, afterTrain |-> trainDone,
                    usedFitted |-> FALSE]]
    /\ UNCHANGED <<model, made, fitted, dataset, trainDone>>
    /\ UNCHANGED <<melodyVars, dataVars, genVars, streamVars, wavVars>>

\* app.py:155-156, 161: generator.model is not None
AppGenCheck(s) ==
    /\ sess[s].pc = "idle" /\ nreq < MaxRequests
    /\ model # 0
    /\ nreq' = nreq + 1
    /\ sess' = [sess EXCEPT ![s].pc = "gen_lstm",
                            ![s].out = [NoOutcome EXCEPT !.afterTrain = trainDone]]
    /\ UNCHANGED <<model, made, fitted, dataset, trainDone>>
    /\ UNCHANGED <<melodyVars, dataVars, genVars, streamVars, wavVars>>

\* app.py:163-164: generate_music(length=50, temperature=0.8) on the object
\* in generator.model, then notes_to_music21
AppGenLstm(s) ==
    /\ sess[s].pc = "gen_lstm"
    /\ sess' = [sess EXCEPT ![s].pc = "idle",
                            ![s].out.path = "lstm",
                            ![s].out.usedFitted = (model \in fitted)]
    /\ UNCHANGED <<model, made, fitted, dataset, trainDone, nreq>>
    /\ UNCHANGED <<melodyVars, dataVars, genVars, streamVars, wavVars>>

InitApp ==
    /\ model = 0 /\ made = 0 /\ fitted = {}
    /\ dataset \in Datasets
    /\ sess = [s \in Sessions |-> IdleSession]
    /\ trainDone = FALSE /\ nreq = 0
    /\ MelodyOff /\ DataOff /\ GenOff /\ StreamOff /\ WavOff

NextApp ==
    \E s \in Sessions :
        \/ AppTrainStart(s)
        \/ AppTrainNoData(s)
        \/ AppTrainBuild(s)
        \/ AppTrainFitRaises(s)
        \/ AppTrainFitCall(s)
        \/ AppTrainFitDone(s)
        \/ AppGenSimple(s)
        \/ AppGenNoModel(s)
        \/ AppGenCheck(s)
        \/ AppGenLstm(s)

SpecApp == InitApp /\ [][NextApp]_vars

\* C5, first half: a generate request takes the learned-model path only if
\* an earlier train request has completed successfully.
C5_LearnedPathOnlyAfterTraining ==
    \A s \in Sessions : sess[s].out.path = "lstm" => sess[s].out.afterTrain

\* C5, second half: a request that finds no trained model reports it and
\* takes its melody from the Markov generator.
C5_NoModelUsesMarkov ==
    \A s \in Sessions :
        sess[s].out.noModel => sess[s].out.warned /\ sess[s].out.path = "markov"

\* C5: a generate request takes the learned-model path only after a train
\* request has completed successfully; whenever no trained model is present
\* the request reports it as a distinct condition and the melody is produced
\* by the Markov generator.
C5_FallbackToMarkov ==
    C5_LearnedPathOnlyAfterTraining /\ C5_NoModelUsesMarkov

\* C12: when every source sequence has at most L pitches, the training
\* pipeline (create_training_data, then train_model) ends without having
\* raised an exception, and the generator's model is still absent afterwards.
C12_EmptyTrainingNoException ==
    \A s \in Sessions :
        (/\ \A i \in 1..Len(dataset) : Len(dataset[i]) <= sequence_length
         /\ sess[s].pc = "idle" /\ sess[s].train # "none")
            => sess[s].raised = "none" /\ model = 0

\* a request holds the shared advanced model from the moment train_model or
\* generate_music is entered until it returns
InFlight(s) == sess[s].pc \in {"train_model", "train_fit", "fitting", "gen_lstm"}
\* train_model between line 100 (the new model installed) and the return of
\* fit
MidTraining(s) == sess[s].pc \in {"train_fit", "fitting"}

\* C13: at most one training or generation operation is in flight on the
\* shared advanced model at any time, so no generate request observes the
\* model while a train request is between installing it and finishing its
\* fit.
C13_RequestsSerialized ==
    /\ \A s, u \in Sessions : InFlight(s) /\ InFlight(u) => s = u
    /\ \A s, u \in Sessions :
          ~(s # u /\ sess[s].pc = "gen_lstm" /\ MidTraining(u))

====
